---- MODULE Spec2Model ----
(***************************************************************************)
(* Model of the three activity-ranking scripts                             *)
(*   total_rework_cost.py      (variant "cost")                            *)
(*   total_rework_duration.py  (variant "hours")                           *)
(*   total_time_reduction.py   (variant "time")                            *)
(*                                                                         *)
(* Numbers are IEEE 754 binary64 values, computed with the rounding of the *)
(* Python float and the pandas float64.  Text is a sequence of             *)
(* one-character strings.                                                  *)
(***************************************************************************)
EXTENDS Integers, Sequences, FiniteSets, TLC

VARIABLES variant, pc, columns, table, goal, outArg,
          missing, reportedCols, work, total, target, ranked,
          idx, selected, cum, achieved, written, exit,
          outcome, x, result

vars == <<variant, pc, columns, table, goal, outArg,
          missing, reportedCols, work, total, target, ranked,
          idx, selected, cum, achieved, written, exit,
          outcome, x, result>>

Variants == {"cost", "hours", "time"}

-----------------------------------------------------------------------------
(* Bounds of the model *)

MaxLen == 4

MaxRows == 3

MaxCols == 3

-----------------------------------------------------------------------------
(* Natural numbers of any size: little-endian sequences of limbs below Base,
   without leading zero limbs; <<>> is zero *)

Base == 32768
LimbBits == 15

RECURSIVE Pow2(_)
Pow2(n) == IF n = 0 THEN 1 ELSE 2 * Pow2(n - 1)

MaxOf(a, b) == IF a >= b THEN a ELSE b
MinOf(a, b) == IF a <= b THEN a ELSE b

RECURSIVE BN(_)
BN(n) == IF n = 0 THEN <<>> ELSE <<n % Base>> \o BN(n \div Base)

Limb(a, i) == IF i <= Len(a) THEN a[i] ELSE 0
Rest(a) == IF a = <<>> THEN <<>> ELSE Tail(a)

RECURSIVE BTrim(_)
BTrim(a) ==
    IF a = <<>> THEN <<>>
    ELSE IF a[Len(a)] = 0 THEN BTrim(SubSeq(a, 1, Len(a) - 1)) ELSE a

RECURSIVE BAddC(_, _, _)
BAddC(a, b, c) ==
    IF b = <<>> /\ c = 0 THEN a
    ELSE IF a = <<>> /\ c = 0 THEN b
    ELSE IF a = <<>> /\ b = <<>> THEN <<c>>
    ELSE LET t == Limb(a, 1) + Limb(b, 1) + c
         IN  <<t % Base>> \o BAddC(Rest(a), Rest(b), t \div Base)

BAdd(a, b) == BAddC(a, b, 0)

\* a - b for a >= b
RECURSIVE BSubC(_, _, _)
BSubC(a, b, c) ==
    IF b = <<>> /\ c = 0 THEN a
    ELSE LET t == a[1] - Limb(b, 1) - c
         IN  <<IF t < 0 THEN t + Base ELSE t>>
                 \o BSubC(Tail(a), Rest(b), IF t < 0 THEN 1 ELSE 0)

BSub(a, b) == BTrim(BSubC(a, b, 0))

RECURSIVE BCmpAt(_, _, _)
BCmpAt(a, b, i) ==
    IF i = 0 THEN 0
    ELSE IF a[i] < b[i] THEN 0 - 1
    ELSE IF a[i] > b[i] THEN 1
    ELSE BCmpAt(a, b, i - 1)

\* -1, 0 or 1 as a is below, equal to or above b
BCmp(a, b) ==
    IF Len(a) < Len(b) THEN 0 - 1
    ELSE IF Len(a) > Len(b) THEN 1
    ELSE BCmpAt(a, b, Len(a))

RECURSIVE BMulSmallC(_, _, _)
BMulSmallC(a, k, c) ==
    IF a = <<>> THEN (IF c = 0 THEN <<>> ELSE <<c>>)
    ELSE LET t == a[1] * k + c
         IN  <<t % Base>> \o BMulSmallC(Tail(a), k, t \div Base)

\* a * k for 0 <= k < Base
BMulSmall(a, k) == IF k = 0 THEN <<>> ELSE IF k = 1 THEN a ELSE BMulSmallC(a, k, 0)

BShiftLimbs(a, n) == IF a = <<>> THEN <<>> ELSE [i \in 1..n |-> 0] \o a

\* st.p is a times the limbs of b above st.i
RECURSIVE BMulAt(_, _, _)
BMulAt(a, b, st) ==
    IF st.i = 0 THEN st.p
    ELSE BMulAt(a, b, [i |-> st.i - 1,
                       p |-> BAdd(BMulSmall(a, b[st.i]), BShiftLimbs(st.p, 1))])

BMul(a, b) == IF a = <<>> THEN <<>> ELSE BMulAt(a, b, [i |-> Len(b), p |-> <<>>])

RECURSIVE BDivSmallAt(_, _, _, _)
BDivSmallAt(a, k, i, r) ==
    IF i = 0 THEN [q |-> <<>>, r |-> r]
    ELSE LET t == r * Base + a[i]
             low == BDivSmallAt(a, k, i - 1, t % k)
         IN  [q |-> Append(low.q, t \div k), r |-> low.r]

\* quotient and remainder of a by k, 0 < k <= Base
BDivSmall(a, k) ==
    LET d == BDivSmallAt(a, k, Len(a), 0)
    IN  [q |-> BTrim(d.q), r |-> d.r]

\* a * 2^n
BShl(a, n) == BShiftLimbs(BMulSmall(a, Pow2(n % LimbBits)), n \div LimbBits)

\* a \div 2^n
BShr(a, n) ==
    LET q == n \div LimbBits
    IN  IF q >= Len(a) THEN <<>>
        ELSE BDivSmall(SubSeq(a, q + 1, Len(a)), Pow2(n % LimbBits)).q

\* a % 2^n = 0
BLowZero(a, n) ==
    LET q == n \div LimbBits
    IN  /\ \A i \in 1..MinOf(q, Len(a)) : a[i] = 0
        /\ Limb(a, q + 1) % Pow2(n % LimbBits) = 0

\* bit i of a, the lowest being bit 0
BBit(a, i) == (Limb(a, i \div LimbBits + 1) \div Pow2(i % LimbBits)) % 2

BOdd(a) == Limb(a, 1) % 2 = 1

RECURSIVE BitLen(_)
BitLen(n) == IF n = 0 THEN 0 ELSE 1 + BitLen(n \div 2)

BBitLen(a) == IF a = <<>> THEN 0 ELSE LimbBits * (Len(a) - 1) + BitLen(a[Len(a)])

RECURSIVE TrailingZeros(_)
TrailingZeros(n) == IF n % 2 = 1 THEN 0 ELSE 1 + TrailingZeros(n \div 2)

\* the number of zero bits below the lowest set bit of a # 0
RECURSIVE BTrailingZeros(_)
BTrailingZeros(a) ==
    IF a[1] = 0 THEN LimbBits + BTrailingZeros(Tail(a)) ELSE TrailingZeros(a[1])

RECURSIVE BFixDigit(_, _, _)
BFixDigit(r, b, q) == IF BCmp(BMulSmall(b, q), r) > 0 THEN BFixDigit(r, b, q - 1) ELSE q

\* long division, one limb of a at a time from the top: st.r is the remainder
\* so far, st.q the quotient limbs found
RECURSIVE BDivAt(_, _, _)
BDivAt(a, b, st) ==
    IF st.i = 0 THEN st
    ELSE LET r1 == BTrim(<<a[st.i]>> \o st.r)
             n == Len(b)
             est == (Limb(r1, n + 1) * Base + Limb(r1, n)) \div b[n]
             qd == BFixDigit(r1, b, MinOf(est, Base - 1))
         IN  BDivAt(a, b, [i |-> st.i - 1,
                           r |-> BSub(r1, BMulSmall(b, qd)),
                           q |-> <<qd>> \o st.q])

\* the quotient of a by b # 0, and whether the division leaves a remainder
BDiv(a, b) ==
    IF Len(b) = 1
    THEN LET d == BDivSmall(a, b[1]) IN [q |-> d.q, rest |-> d.r # 0]
    ELSE LET s == LimbBits - BitLen(b[Len(b)])
             u == BShl(a, s)
             top == Len(b) - 1
         IN  IF Len(u) <= top THEN [q |-> <<>>, rest |-> a # <<>>]
             ELSE LET d == BDivAt(u, BShl(b, s),
                                  [i |-> Len(u) - top,
                                   r |-> SubSeq(u, Len(u) - top + 1, Len(u)),
                                   q |-> <<>>])
                  IN  [q |-> BTrim(d.q), rest |-> d.r # <<>>]

RECURSIVE BPow10(_)
BPow10(n) ==
    IF n = 0 THEN <<1>>
    ELSE LET h == BPow10(n \div 2)
         IN  BMulSmall(BMul(h, h), IF n % 2 = 1 THEN 10 ELSE 1)

-----------------------------------------------------------------------------
(* IEEE 754 binary64 values, the float of Python and the float64 of pandas:
   (-1)^s * m * 2^e with m odd and below 2^53 (m = <<>>, e = 0 for a zero),
   or an infinity, or a nan *)

Precision == 53
MinExp == 0 - 1074
MaxTop == 1024

FZero(s) == [k |-> "fin", s |-> s, m |-> <<>>, e |-> 0]
FInf(s) == [k |-> "inf", s |-> s, m |-> <<>>, e |-> 0]
FNan == [k |-> "nan", s |-> 0, m |-> <<>>, e |-> 0]

IsNan(a) == a.k = "nan"
IsInf(a) == a.k = "inf"
IsZero(a) == a.k = "fin" /\ a.m = <<>>

\* n * 2^e for n # 0, exactly
MkF(s, n, e) ==
    LET z == BTrailingZeros(n)
    IN  [k |-> "fin", s |-> s, m |-> BShr(n, z), e |-> e + z]

\* (n + a fraction if rest) * 2^e rounded to nearest, ties to even; rest is
\* only given with n of more than Precision + 1 bits
FRound(s, n, e, rest) ==
    IF n = <<>> THEN FZero(s)
    ELSE LET len == BBitLen(n)
             sh == MaxOf(len - Precision, MinExp - e)
         IN  IF sh <= 0
             THEN IF len + e > MaxTop THEN FInf(s) ELSE MkF(s, n, e)
             ELSE LET q == BShr(n, sh)
                      half == BBit(n, sh - 1) = 1
                      exact == BLowZero(n, sh - 1) /\ ~rest
                      up == half /\ (~exact \/ BOdd(q))
                      r == IF up THEN BAdd(q, <<1>>) ELSE q
                  IN  IF r = <<>> THEN FZero(s)
                      ELSE IF BBitLen(r) + e + sh > MaxTop THEN FInf(s)
                      ELSE MkF(s, r, e + sh)

\* the float nearest to n * 10^d
FromDecimal(s, n, d) ==
    IF n = <<>> THEN FZero(s)
    ELSE IF d > 310 THEN FInf(s)
    ELSE IF d + BBitLen(n) \div 3 + 1 < 0 - 330 THEN FZero(s)
    ELSE IF d >= 0 THEN FRound(s, BMul(n, BPow10(d)), 0, FALSE)
    ELSE LET p == BPow10(0 - d)
             k == MaxOf(0, Precision + 3 + BBitLen(p) - BBitLen(n))
             c == BDiv(BShl(n, k), p)
         IN  FRound(s, c.q, 0 - k, c.rest)

FromInt(i) == IF i < 0 THEN FromDecimal(1, BN(0 - i), 0) ELSE FromDecimal(0, BN(i), 0)

\* the position above the highest bit of a finite a # 0
FTop(a) == BBitLen(a.m) + a.e

FMul(a, b) ==
    LET s == (a.s + b.s) % 2
    IN  IF IsNan(a) \/ IsNan(b) THEN FNan
        ELSE IF IsInf(a) \/ IsInf(b)
        THEN IF IsZero(a) \/ IsZero(b) THEN FNan ELSE FInf(s)
        ELSE IF IsZero(a) \/ IsZero(b) THEN FZero(s)
        ELSE FRound(s, BMul(a.m, b.m), a.e + b.e, FALSE)

FAdd(a, b) ==
    IF IsNan(a) \/ IsNan(b) THEN FNan
    ELSE IF IsInf(a) THEN (IF IsInf(b) /\ a.s # b.s THEN FNan ELSE a)
    ELSE IF IsInf(b) THEN b
    ELSE IF IsZero(a) THEN (IF IsZero(b) THEN FZero(a.s * b.s) ELSE b)
    ELSE IF IsZero(b) THEN a
    ELSE IF FTop(a) - FTop(b) > Precision + 2 THEN a
    ELSE IF FTop(b) - FTop(a) > Precision + 2 THEN b
    ELSE LET e == MinOf(a.e, b.e)
             u == BShl(a.m, a.e - e)
             w == BShl(b.m, b.e - e)
             c == BCmp(u, w)
         IN  IF a.s = b.s THEN FRound(a.s, BAdd(u, w), e, FALSE)
             ELSE IF c = 0 THEN FZero(0)
             ELSE IF c > 0 THEN FRound(a.s, BSub(u, w), e, FALSE)
             ELSE FRound(b.s, BSub(w, u), e, FALSE)

\* a / b for b # 0
FDiv(a, b) ==
    LET s == (a.s + b.s) % 2
    IN  IF IsNan(a) \/ IsNan(b) THEN FNan
        ELSE IF IsInf(a) THEN (IF IsInf(b) THEN FNan ELSE FInf(s))
        ELSE IF IsInf(b) \/ IsZero(a) THEN FZero(s)
        ELSE LET k == MaxOf(0, Precision + 3 + BBitLen(b.m) - BBitLen(a.m))
                 d == BDiv(BShl(a.m, k), b.m)
             IN  FRound(s, d.q, a.e - b.e - k, d.rest)

\* -1, 0, 1: the sign of a (not a nan)
FSign(a) == IF IsZero(a) THEN 0 ELSE IF a.s = 1 THEN 0 - 1 ELSE 1

\* |a| < |b| for two values of the same nonzero sign
FMagLT(a, b) ==
    IF IsInf(a) THEN FALSE
    ELSE IF IsInf(b) THEN TRUE
    ELSE LET e == MinOf(a.e, b.e)
         IN  IF FTop(a) # FTop(b) THEN FTop(a) < FTop(b)
             ELSE BCmp(BShl(a.m, a.e - e), BShl(b.m, b.e - e)) < 0

FLT(a, b) ==
    /\ ~IsNan(a) /\ ~IsNan(b)
    /\ IF FSign(a) # FSign(b) THEN FSign(a) < FSign(b)
       ELSE IF FSign(a) = 0 THEN FALSE
       ELSE IF FSign(a) = 1 THEN FMagLT(a, b)
       ELSE FMagLT(b, a)

FEQ(a, b) == ~IsNan(a) /\ ~IsNan(b) /\ ~FLT(a, b) /\ ~FLT(b, a)
FLE(a, b) == ~IsNan(a) /\ ~IsNan(b) /\ ~FLT(b, a)
FGT(a, b) == FLT(b, a)
FGE(a, b) == FLE(b, a)

\* "%.2f" % a as a count of hundredths: |a| * 100 to the nearest integer,
\* ties to even
Hundredths(a) ==
    LET n == BMulSmall(a.m, 100)
    IN  IF a.e >= 0 THEN BShl(n, a.e)
        ELSE LET sh == 0 - a.e
                 q == BShr(n, sh)
                 up == BBit(n, sh - 1) = 1 /\ (~BLowZero(n, sh - 1) \/ BOdd(q))
             IN  IF up THEN BAdd(q, <<1>>) ELSE q

Zero == FZero(0)

One == [k |-> "fin", s |-> 0, m |-> <<1>>, e |-> 0]

\* 100.0 = 25 * 2^2
Hundred == [k |-> "fin", s |-> 0, m |-> <<25>>, e |-> 2]

\* min(a, b) and max(a, b) of Python: the first argument stays unless the
\* second is strictly smaller (greater)
PyMin(a, b) == IF FLT(b, a) THEN b ELSE a

PyMax(a, b) == IF FGT(b, a) THEN b ELSE a

\* max(0.0, min(1.0, v))
Clamp01(v) == PyMax(Zero, PyMin(One, v))

-----------------------------------------------------------------------------
(* Text *)

DigitChars == <<"0", "1", "2", "3", "4", "5", "6", "7", "8", "9">>

\* the cased letters of Latin-1, the characters a string of the model can hold
UpperChars == <<"A", "B", "C", "D", "E", "F", "G", "H", "I", "J", "K", "L", "M",
                "N", "O", "P", "Q", "R", "S", "T", "U", "V", "W", "X", "Y", "Z",
                "À", "Á", "Â", "Ã", "Ä", "Å", "Æ", "Ç", "È", "É", "Ê", "Ë", "Ì",
                "Í", "Î", "Ï", "Ð", "Ñ", "Ò", "Ó", "Ô", "Õ", "Ö", "Ø", "Ù", "Ú",
                "Û", "Ü", "Ý", "Þ">>

LowerChars == <<"a", "b", "c", "d", "e", "f", "g", "h", "i", "j", "k", "l", "m",
                "n", "o", "p", "q", "r", "s", "t", "u", "v", "w", "x", "y", "z",
                "à", "á", "â", "ã", "ä", "å", "æ", "ç", "è", "é", "ê", "ë", "ì",
                "í", "î", "ï", "ð", "ñ", "ò", "ó", "ô", "õ", "ö", "ø", "ù", "ú",
                "û", "ü", "ý", "þ">>

\* the whitespace of Latin-1, which str.strip() removes: tab, line feed,
\* vertical tab (U+000B), form feed, carriage return, the four separators
\* U+001C to U+001F, space, next line (U+0085) and no-break space (U+00A0)
Whitespace == {"\t", "\n", "", "\f", "\r", "", "", "", "", " ",
               "", " "}

\* what float() trims: the ASCII blanks, and next line and no-break space, but
\* not the separators U+001C to U+001F
FloatSpace == {"\t", "\n", "", "\f", "\r", " ", "", " "}

\* what the number reader of pandas trims: the ASCII blanks
AsciiSpace == {"\t", "\n", "", "\f", "\r", " "}

IsDigit(c) == \E i \in DOMAIN DigitChars : DigitChars[i] = c

DigitVal(c) == (CHOOSE i \in DOMAIN DigitChars : DigitChars[i] = c) - 1

IsSign(c) == c = "-" \/ c = "+"

Abs(n) == IF n < 0 THEN 0 - n ELSE n

\* str.lower() on one character
LowerChar(c) ==
    IF \E i \in DOMAIN UpperChars : UpperChars[i] = c
    THEN LowerChars[CHOOSE i \in DOMAIN UpperChars : UpperChars[i] = c]
    ELSE c

Lower(s) == [i \in DOMAIN s |-> LowerChar(s[i])]

SetMin(S) == CHOOSE a \in S : \A b \in S : a <= b

SetMax(S) == CHOOSE a \in S : \A b \in S : a >= b

\* s without its leading and trailing characters of ws
Trim(s, ws) ==
    LET keep == {i \in DOMAIN s : s[i] \notin ws}
    IN  IF keep = {} THEN <<>> ELSE SubSeq(s, SetMin(keep), SetMax(keep))

\* str.strip()
Strip(s) == Trim(s, Whitespace)

Contains(s, c) == \E i \in DOMAIN s : s[i] = c

\* str.replace(c, "")
Remove(s, c) == SelectSeq(s, LAMBDA ch : ch # c)

\* the number the characters st.lo .. st.hi of the digit run s spell
RECURSIVE DigitsAt(_, _)
DigitsAt(s, st) ==
    IF st.lo > st.hi THEN <<>>
    ELSE IF st.lo = st.hi THEN BN(DigitVal(s[st.lo]))
    ELSE LET mid == (st.lo + st.hi) \div 2
         IN  BAdd(BMul(DigitsAt(s, [lo |-> st.lo, hi |-> mid]), BPow10(st.hi - mid)),
                  DigitsAt(s, [lo |-> mid + 1, hi |-> st.hi]))

\* the same as an integer, for the digits of an exponent; an exponent beyond
\* five digits is far outside the range of a float whatever its digits are
RECURSIVE ExpValue(_)
ExpValue(s) ==
    IF s = <<>> THEN 0
    ELSE MinOf(10 * ExpValue(SubSeq(s, 1, Len(s) - 1)) + DigitVal(s[Len(s)]), 99999)

\* length of the longest run of digits of s that starts at position j
DigitRun(s, j) ==
    CHOOSE k \in 0..Len(s) :
        /\ \A i \in j..(j + k - 1) : i <= Len(s) /\ IsDigit(s[i])
        /\ ~(j + k <= Len(s) /\ IsDigit(s[j + k]))

RECURSIVE NatText(_)
NatText(n) ==
    IF n < 10 THEN <<DigitChars[n + 1]>>
    ELSE NatText(n \div 10) \o <<DigitChars[(n % 10) + 1]>>

RECURSIVE StripZeros(_)
StripZeros(s) ==
    IF Len(s) > 1 /\ s[Len(s)] = "0" THEN StripZeros(SubSeq(s, 1, Len(s) - 1)) ELSE s

-----------------------------------------------------------------------------
(* Raw cells of the table: a missing marker (None, NaN), a number, a text. *)
(* A number is m * 10^(-e), the shortest decimal that names the float64,   *)
(* or the integer m of an int64 column.                                    *)

NoneCell == [kind |-> "none", m |-> 0, e |-> 0, s |-> <<>>]

NumCell(m, e) == [kind |-> "num", m |-> m, e |-> e, s |-> <<>>]

IntCell(n) == [kind |-> "int", m |-> n, e |-> 0, s |-> <<>>]

StrCell(s) == [kind |-> "str", m |-> 0, e |-> 0, s |-> s]

IsNumber(c) == c.kind = "num" \/ c.kind = "int"

\* float(x) of a number cell
CellNum(c) == FromDecimal(IF c.m < 0 THEN 1 ELSE 0, BN(Abs(c.m)), 0 - c.e)

\* pd.isna(x)
IsNa(c) == c.kind = "none"

\* the outcome of a conversion: a float, or the ValueError float() raises
Ok(f) == [ok |-> TRUE, v |-> f]

ValueError == [ok |-> FALSE, v |-> Zero]

ResNum(r) == r.v

\* the digits of the number cell c and the place of its decimal point:
\* |c| = 0.d1 d2 ... * 10^point, without trailing zeros
Digits(c) == StripZeros(NatText(Abs(c.m)))

Point(c) == Len(NatText(Abs(c.m))) - c.e

\* repr of a float in positional notation
FixedText(c) ==
    LET d == Digits(c)
        p == Point(c)
    IN  IF p <= 0 THEN <<"0", ".">> \o [i \in 1..(0 - p) |-> "0"] \o d
        ELSE IF p >= Len(d) THEN d \o [i \in 1..(p - Len(d)) |-> "0"] \o <<".", "0">>
        ELSE SubSeq(d, 1, p) \o <<".">> \o SubSeq(d, p + 1, Len(d))

\* repr of a float in exponent notation: d[.ddd]e+XX, two exponent digits
\* at least
SciText(c) ==
    LET d == Digits(c)
        e == Point(c) - 1
        t == NatText(Abs(e))
    IN  <<d[1]>> \o (IF Len(d) > 1 THEN <<".">> \o Tail(d) ELSE <<>>)
            \o <<"e", IF e < 0 THEN "-" ELSE "+">>
            \o (IF Len(t) < 2 THEN <<"0">> ELSE <<>>) \o t

\* str(x) of a number: the digits of an int; of a float the shortest repr,
\* in exponent notation below 1e-4 and from 1e16 on
DecText(c) ==
    (IF c.m < 0 THEN <<"-">> ELSE <<>>) \o
    (IF c.kind = "int" THEN NatText(Abs(c.m))
     ELSE IF c.m = 0 THEN <<"0", ".", "0">>
     ELSE IF Point(c) < 0 - 3 \/ Point(c) > 16 THEN SciText(c)
     ELSE FixedText(c))

-----------------------------------------------------------------------------
(* re.search(r"[-+]?\d*\.?\d+", s) *)

\* last position of the match of \d*\.?\d+ tried at position j, 0 when none
UnsignedEnd(s, j) ==
    LET k == DigitRun(s, j)
        f == IF j + k <= Len(s) /\ s[j + k] = "." THEN DigitRun(s, j + k + 1) ELSE 0
    IN  IF f >= 1 THEN j + k + f
        ELSE IF k >= 1 THEN j + k - 1
        ELSE 0

\* last position of the match of the whole pattern tried at position i, 0 when none
MatchEnd(s, i) ==
    IF IsSign(s[i])
    THEN IF i + 1 <= Len(s) THEN UnsignedEnd(s, i + 1) ELSE 0
    ELSE UnsignedEnd(s, i)

HasMatch(s) == \E i \in DOMAIN s : MatchEnd(s, i) # 0

\* m.group(0): the leftmost match
MatchGroup(s) ==
    LET i == SetMin({j \in DOMAIN s : MatchEnd(s, j) # 0})
    IN  SubSeq(s, i, MatchEnd(s, i))

-----------------------------------------------------------------------------
(* float(text): whitespace around is dropped; then an optional sign and     *)
(* either inf, infinity or nan in any case, or digits with at most one      *)
(* point and an optional exponent; single underscores may stand between     *)
(* digits; anything else raises ValueError                                  *)

SpecialWords == { <<"i", "n", "f">>,
                  <<"i", "n", "f", "i", "n", "i", "t", "y">>,
                  <<"n", "a", "n">> }

Unsigned(t) == IF t # <<>> /\ IsSign(t[1]) THEN Tail(t) ELSE t

\* position of the exponent marker of t, 0 when there is none
ExpMark(t) ==
    LET marks == {i \in DOMAIN t : t[i] = "e" \/ t[i] = "E"}
    IN  IF marks = {} THEN 0 ELSE SetMin(marks)

Mantissa(t) == IF ExpMark(t) = 0 THEN t ELSE SubSeq(t, 1, ExpMark(t) - 1)

Exponent(t) == IF ExpMark(t) = 0 THEN <<>> ELSE SubSeq(t, ExpMark(t) + 1, Len(t))

IsMantissa(t) ==
    /\ \A i \in DOMAIN t : IsDigit(t[i]) \/ t[i] = "."
    /\ Cardinality({i \in DOMAIN t : t[i] = "."}) <= 1
    /\ \E i \in DOMAIN t : IsDigit(t[i])

IsExponent(t) ==
    /\ Unsigned(t) # <<>>
    /\ \A i \in DOMAIN Unsigned(t) : IsDigit(Unsigned(t)[i])

\* the texts float() accepts, underscores and outer whitespace set aside
IsFloatText(t) ==
    LET body == Unsigned(t)
    IN  \/ Lower(body) \in SpecialWords
        \/ /\ IsMantissa(Mantissa(body))
           /\ ExpMark(body) # 0 => IsExponent(Exponent(body))

\* every underscore of t stands between two digits
UnderscoresOk(t) ==
    \A i \in DOMAIN t :
        t[i] = "_" => /\ i > 1 /\ IsDigit(t[i - 1])
                      /\ i < Len(t) /\ IsDigit(t[i + 1])

\* the float a text accepted by IsFloatText spells
FloatValue(t) ==
    LET s    == IF t # <<>> /\ t[1] = "-" THEN 1 ELSE 0
        body == Unsigned(t)
        mant == Mantissa(body)
        dots == {i \in DOMAIN mant : mant[i] = "."}
        frac == IF dots = {} THEN 0 ELSE Len(mant) - SetMin(dots)
        ex   == Exponent(body)
        exv  == IF ex # <<>> /\ ex[1] = "-" THEN 0 - ExpValue(Unsigned(ex))
                ELSE ExpValue(Unsigned(ex))
        digs == Remove(mant, ".")
    IN  IF Lower(body) = <<"n", "a", "n">> THEN FNan
        ELSE IF Lower(body) \in SpecialWords THEN FInf(s)
        ELSE FromDecimal(s, DigitsAt(digs, [lo |-> 1, hi |-> Len(digs)]), exv - frac)

Float(s) ==
    LET t == Trim(s, FloatSpace)
    IN  IF UnderscoresOk(t) /\ IsFloatText(Remove(t, "_"))
        THEN Ok(FloatValue(Remove(t, "_")))
        ELSE ValueError

-----------------------------------------------------------------------------
(* The rate parsers *)

\* v / 100.0 if v > 1 else v
Percentage(v) == IF FGT(v, One) THEN FDiv(v, Hundred) ELSE v

\* total_rework_cost.py and total_rework_duration.py (the same text)
parse_rate(c) ==
    IF IsNa(c) THEN Ok(Zero)
    ELSE IF c.kind = "str" THEN
        LET s == Strip(c.s)
        IN  IF s = <<>> THEN Ok(Zero)
            ELSE IF ~HasMatch(s) THEN Ok(Zero)
            ELSE LET v == FloatValue(MatchGroup(s))
                 IN  IF Contains(s, "%")
                     THEN Ok(Clamp01(FDiv(v, Hundred)))
                     ELSE Ok(Clamp01(Percentage(v)))
    ELSE Ok(Clamp01(Percentage(CellNum(c))))

\* total_time_reduction.py
parse_automation_rate(c) ==
    IF IsNa(c) THEN Ok(Zero)
    ELSE LET s == Strip(IF c.kind = "str" THEN c.s ELSE DecText(c))
         IN  IF Contains(s, "%")
             THEN LET v == Float(Remove(s, "%"))
                  IN  IF v.ok THEN Ok(FDiv(ResNum(v), Hundred)) ELSE ValueError
             ELSE LET v == Float(s)
                  IN  IF v.ok THEN Ok(Percentage(ResNum(v))) ELSE ValueError

ParseRate(v, c) == IF v = "time" THEN parse_automation_rate(c) ELSE parse_rate(c)

-----------------------------------------------------------------------------
(* Inputs of the rate parser *)

\* the last character is the separator U+001C
Chars == {"0", "1", "2", "5", ".", "-", "%", "a", " ", "e", "n", "_", ""}

Texts == UNION {[1..n -> Chars] : n \in 0..MaxLen}

NumInputs ==
    UNION {{NumCell(m, 0), NumCell(m, 1), NumCell(m, 2), NumCell(m, 6), IntCell(m)} :
              m \in {0 - 5, 0, 1, 2, 20, 150}}

RateInputs == {NoneCell} \cup NumInputs \cup {StrCell(s) : s \in Texts}

-----------------------------------------------------------------------------
(* Column resolution *)

\* find_col candidates of the activity column (cost and hours)
ActivityAliases ==
    << <<"v", "a", "l", "u", "e">>,
       <<"a", "c", "t", "i", "v", "i", "t", "y">>,
       <<"a", "c", "t", "i", "v", "i", "t", "y", "_", "n", "a", "m", "e">>,
       <<"n", "a", "m", "e">> >>

\* find_col candidates of the metric column, total_rework_cost.py
CostAliases ==
    << <<"t", "o", "t", "a", "l", " ", "r", "e", "w", "o", "r", "k", " ", "c", "o", "s", "t">>,
       <<"r", "e", "w", "o", "r", "k", "_", "c", "o", "s", "t">>,
       <<"r", "e", "w", "o", "r", "k", " ", "c", "o", "s", "t">>,
       <<"t", "o", "t", "a", "l", "_", "r", "e", "w", "o", "r", "k", "_", "c", "o", "s", "t">> >>

\* find_col candidates of the metric column, total_rework_duration.py
HoursAliases ==
    << <<"t", "o", "t", "a", "l", " ", "r", "e", "w", "o", "r", "k", " ", "h", "o", "u", "r", "s">>,
       <<"r", "e", "w", "o", "r", "k", "_", "h", "o", "u", "r", "s">>,
       <<"r", "e", "w", "o", "r", "k", " ", "h", "o", "u", "r", "s">> >>

\* find_col candidates of the rate column (cost and hours)
RateAliases ==
    << <<"a", "u", "t", "o", "m", "a", "t", "i", "o", "n", "_", "r", "a", "t", "e">>,
       <<"a", "u", "t", "o", "m", "a", "t", "i", "o", "n", " ", "r", "a", "t", "e">>,
       <<"a", "u", "t", "o", "m", "a", "t", "i", "o", "n">> >>

\* total_time_reduction.py
required_cols ==
    << <<"v", "a", "l", "u", "e">>,
       <<"t", "o", "t", "a", "l", "_", "d", "u", "r", "a", "t", "i", "o", "n">>,
       <<"a", "u", "t", "o", "m", "a", "t", "i", "o", "n", "_", "r", "a", "t", "e">> >>

\* c.strip().lower()
Normalize(h) == Lower(Strip(h))

NotFound == [found |-> FALSE, name |-> <<>>]

\* lookup = {c.strip().lower(): c for c in df.columns}; lookup[key]:
\* of two columns with the same key the later one stays
Lookup(cols, key) ==
    LET hits == {i \in DOMAIN cols : Normalize(cols[i]) = key}
    IN  IF hits = {} THEN NotFound
        ELSE [found |-> TRUE, name |-> cols[SetMax(hits)]]

RECURSIVE find_col(_, _)
find_col(cols, candidates) ==
    IF candidates = <<>> THEN NotFound
    ELSE LET r == Lookup(cols, Normalize(Head(candidates)))
         IN  IF r.found THEN r ELSE find_col(cols, Tail(candidates))

MetricAliases(v) == IF v = "cost" THEN CostAliases ELSE HoursAliases

MetricLabel(v) == IF v = "cost" THEN "Total rework cost" ELSE "Total rework hours"

\* the list `missing` of main() in the cost and hours scripts
MissingList(v, cols) ==
    (IF find_col(cols, ActivityAliases).found THEN <<>> ELSE <<"value/activity">>)
    \o (IF find_col(cols, MetricAliases(v)).found THEN <<>> ELSE <<MetricLabel(v)>>)
    \o (IF find_col(cols, RateAliases).found THEN <<>> ELSE <<"automation_rate">>)

\* df.columns = [c.strip().lower() for c in df.columns]
NormalizedColumns(cols) == [i \in DOMAIN cols |-> Normalize(cols[i])]

RequiredLabels == <<"value", "total_duration", "automation_rate">>

\* positions in required_cols of the columns that `col not in df.columns` rejects
AbsentRequired(cols) ==
    {k \in DOMAIN required_cols :
        ~\E i \in DOMAIN cols : cols[i] = required_cols[k]}

-----------------------------------------------------------------------------
(* Cleaning, totals, ranking and selection *)

\* 1e-9, the absolute tolerance of the cost and hours scripts, is 10^(-TolExp)
TolExp == 9

Tolerance == FromDecimal(0, <<1>>, 0 - TolExp)

\* pd.to_numeric(cell, errors="coerce") followed by fillna(0): a text is
\* read as float() reads it, except that underscores are not accepted and
\* only ASCII blanks are trimmed; what cannot be read, and nan, becomes 0
to_numeric(c) ==
    IF IsNumber(c) THEN CellNum(c)
    ELSE IF c.kind = "str" /\ IsFloatText(Trim(c.s, AsciiSpace))
                           /\ ~IsNan(FloatValue(Trim(c.s, AsciiSpace)))
         THEN FloatValue(Trim(c.s, AsciiSpace))
    ELSE Zero

\* the rate column after .apply(parse): one result a cell
Rates(v, t) == [i \in DOMAIN t |-> ParseRate(v, t[i].rate)]

CleanRow(t, i, r) ==
    [id |-> i, metric |-> to_numeric(t[i].metric), rate |-> ResNum(r)]

\* res += a[i] for i = st.i, st.i + st.step, ... up to st.last
RECURSIVE PwFold(_, _, _)
PwFold(res, a, st) ==
    IF st.i > st.last THEN res
    ELSE PwFold(FAdd(res, a[st.i]), a, [st EXCEPT !.i = st.i + st.step])

\* the eight lane sums r added in pairs: ((r1 + r2) + (r3 + r4)) + ((r5 + r6) + (r7 + r8))
RECURSIVE PwTree(_)
PwTree(r) ==
    IF Len(r) = 1 THEN r[1]
    ELSE FAdd(PwTree(SubSeq(r, 1, Len(r) \div 2)),
              PwTree(SubSeq(r, Len(r) \div 2 + 1, Len(r))))

\* the pairwise summation of numpy: fewer than 8 values are added in order;
\* up to 128 are added in eight lanes, the lanes in pairs, the last n % 8
\* values in order; more are split in two halves
RECURSIVE PwSum(_)
PwSum(a) ==
    LET n == Len(a)
        b == n \div 8
        h == (n \div 2) - ((n \div 2) % 8)
    IN  IF n < 8 THEN PwFold(Zero, a, [i |-> 1, step |-> 1, last |-> n])
        ELSE IF n <= 128
        THEN PwFold(PwTree([j \in 1..8 |->
                               PwFold(a[j], a, [i |-> j + 8, step |-> 8, last |-> 8 * b])]),
                    a, [i |-> 8 * b + 1, step |-> 1, last |-> n])
        ELSE FAdd(PwSum(SubSeq(a, 1, h)), PwSum(SubSeq(a, h + 1, n)))

\* df[metric].sum(): 0.0 + the pairwise sum of the column
SumMetric(w) == FAdd(Zero, PwSum([i \in DOMAIN w |-> w[i].metric]))

\* the guard of the zero-total exit
NothingToReduce(v, t) == IF v = "time" THEN FEQ(t, Zero) ELSE FLE(t, Zero)

\* target = total * (goal / 100.0)
Target(t, g) == FMul(t, FDiv(g, Hundred))

\* the reducible amount of a record: metric * rate
Reducible(r) == FMul(r.metric, r.rate)

WithReducible(w) ==
    [i \in DOMAIN w |->
        [id |-> w[i].id, metric |-> w[i].metric, rate |-> w[i].rate,
         red |-> Reducible(w[i])]]

Perms(n) == {p \in [1..n -> 1..n] : \A i, j \in 1..n : i # j => p[i] # p[j]}

\* the order of one sort key, descending, nan last
KeyBefore(a, b) == (~IsNan(a) /\ IsNan(b)) \/ FGT(a, b)

KeySame(a, b) == (IsNan(a) /\ IsNan(b)) \/ FEQ(a, b)

\* sort_values([reducible, metric], ascending=[False, False]) in the cost and
\* hours scripts: a stable lexicographic sort, so records equal on both keys
\* keep their input order
\* sort_values("potential_savings", ascending=False) in the time script: the
\* default sort kind is not stable, so records with equal savings may come out
\* in any order
Before(v, a, b) ==
    IF v = "time" THEN ~KeyBefore(b.red, a.red)
    ELSE \/ KeyBefore(a.red, b.red)
         \/ KeySame(a.red, b.red) /\ KeyBefore(a.metric, b.metric)
         \/ KeySame(a.red, b.red) /\ KeySame(a.metric, b.metric) /\ a.id < b.id

RankOrders(v, w) ==
    {[i \in DOMAIN w |-> w[p[i]]] :
        p \in {q \in Perms(Len(w)) :
                 \A i, j \in DOMAIN w : i < j => Before(v, w[q[i]], w[q[j]])}}

\* a variant of IsSkipped that passes over negative amounts only
IsSkippedNegativeOnly(r) == FLT(r.red, Zero)

\* row[reducible] <= 0: the record is passed over
IsSkipped(r) == FLE(r.red, Zero)

\* cum += reducible
Accumulate(c, r) == FAdd(c, r.red)

\* the break condition of the selection loop: cumulative >= target in the
\* time script, cum + 1e-9 >= target in the cost and hours scripts
MetTarget(v, c, t) ==
    IF v = "time" THEN FGE(c, t) ELSE FGE(FAdd(c, Tolerance), t)

NotReported == [ok |-> FALSE, k |-> "fin", s |-> 0, h |-> <<>>]

\* f"{a:.2f}": the sign and the hundredths that are printed
Format2(a) ==
    [ok |-> TRUE, k |-> a.k, s |-> a.s,
     h |-> IF a.k = "fin" THEN Hundredths(a) ELSE <<>>]

\* (cum / total) * 100 as it is printed, with two decimals
AchievedPct(c, t) == Format2(FMul(FDiv(c, t), Hundred))

-----------------------------------------------------------------------------
(* Inputs of a run *)

Row(metric, rate) == [metric |-> metric, rate |-> rate]

\* (metric cell, rate cell) as the table reader delivers them; a column may
\* hold numbers and texts side by side.
RowPool ==
    { Row(NumCell(2, 0), StrCell(<<"5", "0", "%">>)),
      Row(NumCell(1, 0), NumCell(1, 0)),
      Row(NumCell(1, 0), NoneCell),
      Row(StrCell(<<"x">>), StrCell(<<"5", "0", "%">>)),
      Row(NumCell(1, 0), StrCell(<<"a", "b", "c">>)),
      Row(NumCell(0 - 1, 0), NumCell(1, 0)),
      Row(NumCell(2, 0), NumCell(150, 0)) }

\* records whose metric is far below the tolerance: 2e-10 and 1e-10, rate 1
TinyPool ==
    { Row(NumCell(2, 10), NumCell(1, 0)),
      Row(NumCell(1, 10), NumCell(1, 0)) }

\* records whose sums and quotients are rounded: 0.1 + 0.3 is not 0.4 * 1.0,
\* and 1015 / 100000 * 100 is below 1.015
FinePool ==
    { Row(NumCell(1, 1), NumCell(1, 0)),
      Row(NumCell(3, 1), NumCell(1, 0)),
      Row(NumCell(1015, 0), IntCell(1)),
      Row(NumCell(98985, 0), StrCell(<<"1", "e", "-", "3", "%">>)) }

TablesOver(pool) == UNION {[1..n -> pool] : n \in 0..MaxRows}

\* the tables of at most MaxRows rows; among them tables with a metric cell
\* inf or -inf, whose reducible amount at rate 0 is nan (inf * 0.0) and whose
\* total is inf, -inf or nan; and one table of eight rows, the smallest that
\* pandas sums in lanes: its metric column 2e9, 1e-7, 1e-7, 1e-7, -2e9, -1e-7,
\* -1e-7, -1e-7 adds up to 0 in lanes and to -3e-7 when added in order
Tables ==
    TablesOver(RowPool) \cup TablesOver(TinyPool) \cup TablesOver(FinePool) \cup
    TablesOver({ Row(StrCell(<<"i", "n", "f">>), IntCell(0)),
                 Row(StrCell(<<"-", "i", "n", "f">>), NumCell(1, 0)),
                 Row(NumCell(1, 0), NumCell(1, 0)) }) \cup
    { [i \in 1..8 |->
          Row(IF i = 1 THEN NumCell(2000000000, 0)
              ELSE IF i = 5 THEN NumCell(0 - 2000000000, 0)
              ELSE IF i < 5 THEN NumCell(1, 7)
              ELSE NumCell(0 - 1, 7),
              IntCell(50))] }

\* --goal, a percentage
Goals == {FromInt(g) : g \in {0 - 10, 0, 50, 75, 100, 200}}

\* headers as a CSV may carry them; the second begins with a no-break space
\* (U+00A0) and ends with the separator U+001F
HeaderPool ==
    { <<"v", "a", "l", "u", "e">>,
      <<" ", "A", "c", "t", "i", "v", "i", "t", "y", "">>,
      <<"T", "o", "t", "a", "l", " ", "r", "e", "w", "o", "r", "k", " ", "c", "o", "s", "t">>,
      <<"r", "e", "w", "o", "r", "k", "_", "h", "o", "u", "r", "s">>,
      <<"t", "o", "t", "a", "l", "_", "d", "u", "r", "a", "t", "i", "o", "n">>,
      <<"A", "u", "t", "o", "m", "a", "t", "i", "o", "n", "_", "R", "a", "t", "e", "\n">>,
      <<"f", "o", "o">> }

ColumnLists ==
    {c \in UNION {[1..n -> HeaderPool] : n \in 0..MaxCols} :
        \A i, j \in DOMAIN c : i # j => c[i] # c[j]}

\* the headers the scripts document
DocumentedColumns(v) ==
    IF v = "cost" THEN << <<"v", "a", "l", "u", "e">>, <<"T", "o", "t", "a", "l", " ", "r", "e", "w", "o", "r", "k", " ", "c", "o", "s", "t">>, <<"a", "u", "t", "o", "m", "a", "t", "i", "o", "n", "_", "r", "a", "t", "e">> >>
    ELSE IF v = "hours" THEN << <<"v", "a", "l", "u", "e">>, <<"T", "o", "t", "a", "l", " ", "r", "e", "w", "o", "r", "k", " ", "h", "o", "u", "r", "s">>, <<"a", "u", "t", "o", "m", "a", "t", "i", "o", "n", "_", "r", "a", "t", "e">> >>
    ELSE << <<"v", "a", "l", "u", "e">>, <<"t", "o", "t", "a", "l", "_", "d", "u", "r", "a", "t", "i", "o", "n">>, <<"a", "u", "t", "o", "m", "a", "t", "i", "o", "n", "_", "r", "a", "t", "e">> >>

-----------------------------------------------------------------------------
(* A run of main() *)

InitRunState ==
    /\ pc = "start"
    /\ missing = <<>>
    /\ reportedCols = <<>>
    /\ work = <<>>
    /\ total = Zero
    /\ target = Zero
    /\ ranked = <<>>
    /\ idx = 0
    /\ selected = <<>>
    /\ cum = Zero
    /\ achieved = NotReported
    /\ written = FALSE
    /\ exit = 0 - 1
    /\ outcome = "running"
    /\ x = NoneCell
    /\ result = ValueError

\* any headers, one documented table
InitCols ==
    /\ variant \in Variants
    /\ columns \in ColumnLists
    /\ table = << Row(NumCell(2, 0), StrCell(<<"5", "0", "%">>)), Row(NumCell(1, 0), NoneCell) >>
    /\ goal = FromInt(50)
    /\ outArg \in BOOLEAN
    /\ InitRunState

\* the documented headers, any table and goal
InitRun ==
    /\ variant \in Variants
    /\ columns = DocumentedColumns(variant)
    /\ table \in Tables
    /\ goal \in Goals
    /\ outArg = TRUE
    /\ InitRunState

Init == InitCols \/ InitRun

\* cost and hours, lines 76-91: some logical column is unresolved
ResolveMissing ==
    /\ pc = "start"
    /\ variant # "time"
    /\ MissingList(variant, columns) # <<>>
    /\ missing' = MissingList(variant, columns)
    /\ reportedCols' = columns
    /\ exit' = 2
    /\ outcome' = "missing_columns"
    /\ pc' = "done"
    /\ UNCHANGED <<variant, columns, table, goal, outArg, work, total, target,
                   ranked, idx, selected, cum, achieved, written, x, result>>

\* cost and hours, lines 76-94: the three columns are resolved
ResolveOk ==
    /\ pc = "start"
    /\ variant # "time"
    /\ MissingList(variant, columns) = <<>>
    /\ pc' = "clean"
    /\ UNCHANGED <<variant, columns, table, goal, outArg, missing, reportedCols,
                   work, total, target, ranked, idx, selected, cum, achieved,
                   written, exit, outcome, x, result>>

\* time, lines 46-54: the first required column that is absent ends the run
RequireMissing ==
    /\ pc = "start"
    /\ variant = "time"
    /\ LET norm == NormalizedColumns(columns)
       IN  /\ AbsentRequired(norm) # {}
           /\ columns' = norm
           /\ missing' = <<RequiredLabels[SetMin(AbsentRequired(norm))]>>
           /\ reportedCols' = norm
    /\ exit' = 1
    /\ outcome' = "missing_columns"
    /\ pc' = "done"
    /\ UNCHANGED <<variant, table, goal, outArg, work, total, target,
                   ranked, idx, selected, cum, achieved, written, x, result>>

\* time, lines 46-54: every required column is present
RequireOk ==
    /\ pc = "start"
    /\ variant = "time"
    /\ AbsentRequired(NormalizedColumns(columns)) = {}
    /\ columns' = NormalizedColumns(columns)
    /\ pc' = "clean"
    /\ UNCHANGED <<variant, table, goal, outArg, missing, reportedCols,
                   work, total, target, ranked, idx, selected, cum, achieved,
                   written, exit, outcome, x, result>>

\* the metric column is coerced and the rate column parsed
Clean ==
    /\ pc = "clean"
    /\ \E rates \in {Rates(variant, table)} :
        /\ \A i \in DOMAIN table : rates[i].ok
        /\ work' = [i \in DOMAIN table |-> CleanRow(table, i, rates[i])]
    /\ pc' = "total"
    /\ UNCHANGED <<variant, columns, table, goal, outArg, missing, reportedCols,
                   total, target, ranked, idx, selected, cum, achieved,
                   written, exit, outcome, x, result>>

\* a rate cell makes float() raise: the exception leaves main() uncaught
CleanRaises ==
    /\ pc = "clean"
    /\ \E rates \in {Rates(variant, table)} : \E i \in DOMAIN table : ~rates[i].ok
    /\ exit' = 1
    /\ outcome' = "value_error"
    /\ pc' = "done"
    /\ UNCHANGED <<variant, columns, table, goal, outArg, missing, reportedCols,
                   work, total, target, ranked, idx, selected, cum, achieved,
                   written, x, result>>

\* the total is computed and found to leave nothing to reduce
TotalZero ==
    /\ pc = "total"
    /\ \E t \in {SumMetric(work)} :
          /\ NothingToReduce(variant, t)
          /\ total' = t
    /\ exit' = 0
    /\ outcome' = "zero_total"
    /\ pc' = "done"
    /\ UNCHANGED <<variant, columns, table, goal, outArg, missing, reportedCols,
                   work, target, ranked, idx, selected, cum, achieved,
                   written, x, result>>

\* the total and the target amount
Total ==
    /\ pc = "total"
    /\ \E t \in {SumMetric(work)} :
          /\ ~NothingToReduce(variant, t)
          /\ total' = t
          /\ target' = Target(t, goal)
    /\ pc' = "rank"
    /\ UNCHANGED <<variant, columns, table, goal, outArg, missing, reportedCols,
                   work, ranked, idx, selected, cum, achieved,
                   written, exit, outcome, x, result>>

\* the reducible amounts and the ranked table
Rank ==
    /\ pc = "rank"
    /\ ranked' \in RankOrders(variant, WithReducible(work))
    /\ idx' = 0
    /\ selected' = <<>>
    /\ cum' = Zero
    /\ pc' = "walk"
    /\ UNCHANGED <<variant, columns, table, goal, outArg, missing, reportedCols,
                   work, total, target, achieved, written, exit, outcome, x, result>>

\* one iteration of the selection loop: continue
WalkSkip ==
    /\ pc = "walk"
    /\ idx < Len(ranked)
    /\ IsSkipped(ranked[idx + 1])
    /\ idx' = idx + 1
    /\ UNCHANGED <<variant, pc, columns, table, goal, outArg, missing, reportedCols,
                   work, total, target, ranked, selected, cum, achieved,
                   written, exit, outcome, x, result>>

\* one iteration of the selection loop: append, accumulate, break when met
WalkTake ==
    /\ pc = "walk"
    /\ idx < Len(ranked)
    /\ ~IsSkipped(ranked[idx + 1])
    /\ selected' = Append(selected, ranked[idx + 1])
    /\ cum' = Accumulate(cum, ranked[idx + 1])
    /\ idx' = idx + 1
    /\ pc' = IF MetTarget(variant, Accumulate(cum, ranked[idx + 1]), target)
             THEN "report" ELSE "walk"
    /\ UNCHANGED <<variant, columns, table, goal, outArg, missing, reportedCols,
                   work, total, target, ranked, achieved,
                   written, exit, outcome, x, result>>

\* the ranked table is exhausted
WalkEnd ==
    /\ pc = "walk"
    /\ idx = Len(ranked)
    /\ pc' = "report"
    /\ UNCHANGED <<variant, columns, table, goal, outArg, missing, reportedCols,
                   work, total, target, ranked, idx, selected, cum, achieved,
                   written, exit, outcome, x, result>>

\* the results are printed, the ranked table saved when asked for
Report ==
    /\ pc = "report"
    /\ achieved' = IF selected = <<>> THEN NotReported ELSE AchievedPct(cum, total)
    /\ written' = outArg
    /\ exit' = 0
    /\ outcome' = "reported"
    /\ pc' = "done"
    /\ UNCHANGED <<variant, columns, table, goal, outArg, missing, reportedCols,
                   work, total, target, ranked, idx, selected, cum, x, result>>

Next ==
    \/ ResolveMissing
    \/ ResolveOk
    \/ RequireMissing
    \/ RequireOk
    \/ Clean
    \/ CleanRaises
    \/ TotalZero
    \/ Total
    \/ Rank
    \/ WalkSkip
    \/ WalkTake
    \/ WalkEnd
    \/ Report

Spec == Init /\ [][Next]_vars

-----------------------------------------------------------------------------
(* The rate parser on its own *)

InitParse ==
    /\ variant \in Variants
    /\ x \in RateInputs
    /\ result = ValueError
    /\ pc = "parse"
    /\ columns = <<>>
    /\ table = <<>>
    /\ goal = Zero
    /\ outArg = FALSE
    /\ missing = <<>>
    /\ reportedCols = <<>>
    /\ work = <<>>
    /\ total = Zero
    /\ target = Zero
    /\ ranked = <<>>
    /\ idx = 0
    /\ selected = <<>>
    /\ cum = Zero
    /\ achieved = NotReported
    /\ written = FALSE
    /\ exit = 0 - 1
    /\ outcome = "running"

ParseCall ==
    /\ pc = "parse"
    /\ result' = ParseRate(variant, x)
    /\ pc' = "parsed"
    /\ UNCHANGED <<variant, columns, table, goal, outArg, missing, reportedCols,
                   work, total, target, ranked, idx, selected, cum, achieved,
                   written, exit, outcome, x>>

NextParse == ParseCall

SpecParse == InitParse /\ [][NextParse]_vars


-----------------------------------------------------------------------------
(* Vocabulary of the properties *)

IsPositive(r) == FGT(r.red, Zero)

\* the records of a ranked table with a positive reducible amount, in order
PositiveOf(r) == SelectSeq(r, IsPositive)

\* the reducible amounts of r added up in order, as the walk adds them
RECURSIVE SumRed(_)
SumRed(r) ==
    IF r = <<>> THEN Zero
    ELSE FAdd(SumRed(SubSeq(r, 1, Len(r) - 1)), r[Len(r)].red)

\* the walk is over and its results have been formed
WalkOver == pc = "report" \/ (pc = "done" /\ outcome = "reported")

\* the decimal text of a number, in positional notation
PlainText(c) ==
    (IF c.m < 0 THEN <<"-">> ELSE <<>>) \o
    (IF c.kind = "int" THEN NatText(Abs(c.m)) ELSE FixedText(c))

\* two outcomes of a parser are the same: both raise, or both give the same number
SameResult(a, b) == a.ok = b.ok /\ (a.ok => FEQ(a.v, b.v))

\* the rate rule as one rule for numbers and texts: nothing to read gives 0,
\* a '%' divides by 100, otherwise a value above 1 is divided by 100, and the
\* result is clamped to [0, 1]
RuleRate(c) ==
    LET s       == Strip(c.s)
        numeric == IsNumber(c) \/ (c.kind = "str" /\ HasMatch(s))
        v       == IF IsNumber(c) THEN CellNum(c) ELSE FloatValue(MatchGroup(s))
    IN  IF ~numeric THEN Zero
        ELSE IF c.kind = "str" /\ Contains(s, "%") THEN Clamp01(FDiv(v, Hundred))
        ELSE Clamp01(Percentage(v))

\* the printed percentage a is 100 * c / t: for finite c and t, of all counts
\* of hundredths one nearest to the quotient taken exactly; otherwise the nan,
\* the infinity or the zero that the quotient is
NearestHundredths(a, c, t) ==
    LET e0 == MinOf(c.e, t.e)
        tm == BShl(t.m, t.e - e0)
        cm == BMul(BShl(c.m, c.e - e0), <<10000>>)
        hm == BMul(a.h, tm)
        d  == IF BCmp(hm, cm) >= 0 THEN BSub(hm, cm) ELSE BSub(cm, hm)
    IN  IF c.k = "fin" /\ t.k = "fin"
        THEN /\ a.k = "fin"
             /\ a.h # <<>> => a.s = (c.s + t.s) % 2
             /\ BCmp(BShl(d, 1), tm) <= 0
        ELSE IF c.k = "nan" \/ t.k = "nan" \/ (c.k = "inf" /\ t.k = "inf")
        THEN a.k = "nan"
        ELSE IF c.k = "inf" THEN a.k = "inf"
        ELSE a.k = "fin" /\ a.h = <<>>

\* per logical column (activity, metric, rate): the names it may carry
LogicalAliases(v) ==
    IF v = "time"
    THEN << <<required_cols[1]>>, <<required_cols[2]>>, <<required_cols[3]>> >>
    ELSE << ActivityAliases, MetricAliases(v), RateAliases >>

LogicalLabels(v) ==
    IF v = "time" THEN RequiredLabels
    ELSE << "value/activity", MetricLabel(v), "automation_rate" >>

\* the logical columns no header matches, case and surrounding blanks ignored
Unresolved(v, cols) ==
    {k \in 1..3 :
        ~\E i \in DOMAIN cols, j \in DOMAIN LogicalAliases(v)[k] :
            Normalize(cols[i]) = Normalize(LogicalAliases(v)[k][j])}

-----------------------------------------------------------------------------
(* Properties *)

\* C1: in each of the three scripts the rate parser returns a value in the
\* closed interval [0, 1] for every input (missing, number, text).
C1_RateInUnitInterval ==
    pc = "parsed" =>
        /\ result.ok
        /\ FLE(Zero, result.v)
        /\ FLE(result.v, One)

\* C2: the rate parser follows the one rule RuleRate whether the value comes
\* as a number or as text, and a number parses like its decimal text.
C2_OneRule ==
    pc = "parsed" =>
        /\ SameResult(result, Ok(RuleRate(x)))
        /\ IsNumber(x) =>
               SameResult(ParseRate(variant, StrCell(PlainText(x))), result)

\* C3: minimality: when the walk is over with a non-empty selection that is
\* not the whole set of positive records, the amount accumulated by the
\* selection without its last record is strictly below the target, for every
\* goal.
C3_Minimality ==
    (WalkOver /\ selected # <<>> /\ selected # PositiveOf(ranked)) =>
        FLT(SumRed(SubSeq(selected, 1, Len(selected) - 1)), target)

\* C4: the ranked table is non-increasing in the reducible amount, and of two
\* adjacent records with equal reducible amount the one with the greater
\* metric value comes first.
C4_RankingOrder ==
    \A i \in 1..(Len(ranked) - 1) :
        /\ ~FLT(ranked[i].red, ranked[i + 1].red)
        /\ FEQ(ranked[i].red, ranked[i + 1].red)
               => ~FLT(ranked[i].metric, ranked[i + 1].metric)

\* C5: zero-skip: in every state of the walk and in the final result no record
\* with a reducible amount <= 0 is in selected.
C5_ZeroSkip ==
    \A i \in DOMAIN selected : ~FLE(selected[i].red, Zero)

\* C5 witness: a finished run whose walk went past a record with reducible
\* amount <= 0 after having selected something.
C5_Witness ==
    /\ pc = "done"
    /\ outcome = "reported"
    /\ selected # <<>>
    /\ \E i \in 1..idx : FLE(ranked[i].red, Zero)

\* C6: whenever the sum of the metric values is <= 0 the run ends in the
\* zero-total state with exit status 0, and nothing is ranked or selected.
C6_ZeroTotalShortCircuit ==
    (/\ pc \notin {"start", "clean", "total", "parse", "parsed"}
     /\ outcome \notin {"missing_columns", "value_error"}
     /\ FLE(SumMetric(work), Zero)) =>
        /\ pc = "done"
        /\ outcome = "zero_total"
        /\ exit = 0
        /\ ranked = <<>>
        /\ selected = <<>>

\* C7: a malformed cell never aborts a run: a non-numeric metric cell counts
\* as 0, an unparseable rate cell as 0, and no run ends with an error.
C7_MalformedCellsNeverAbort ==
    /\ outcome # "value_error"
    /\ work # <<>> =>
         \A i \in DOMAIN work :
            /\ (table[i].metric.kind = "str" /\ ~IsFloatText(Trim(table[i].metric.s, AsciiSpace)))
                   => work[i].metric = Zero
            /\ (table[i].rate.kind = "str" /\ ~HasMatch(Strip(table[i].rate.s)))
                   => work[i].rate = Zero

\* C8: when some logical column is unresolved the run reports every unresolved
\* logical column and the columns present, exits with a non-zero status, and
\* ranks, selects and writes nothing.
C8_MissingColumns ==
    (pc = "done" /\ Unresolved(variant, columns) # {}) =>
        /\ {missing[i] : i \in DOMAIN missing}
               = {LogicalLabels(variant)[k] : k \in Unresolved(variant, columns)}
        /\ reportedCols = columns
        /\ exit > 0
        /\ ranked = <<>>
        /\ selected = <<>>
        /\ ~written

\* C9: when the total is positive and the sum of the positive reducible
\* amounts is below the target, the walk visits every ranked record, selected
\* is exactly the positive records, cum is their sum, and the run ends with
\* exit status 0.
C9_UnreachableGoal ==
    (WalkOver /\ FGT(total, Zero) /\ FLT(SumRed(PositiveOf(ranked)), target)) =>
        /\ idx = Len(ranked)
        /\ selected = PositiveOf(ranked)
        /\ cum = SumRed(PositiveOf(ranked))
        /\ pc = "done" => exit = 0

\* C10: after every iteration of the walk selected is a prefix, in ranked
\* order, of the positive ranked records; cum is the sum of the reducible
\* amounts of the records in selected; no record was appended once an
\* iteration had brought cum to the target; and the achieved percentage that
\* is reported is cum / total (times 100, printed with two decimals).
C10_RunningSum ==
    pc \in {"walk", "report", "done"} =>
        /\ Len(selected) <= Len(PositiveOf(ranked))
        /\ selected = SubSeq(PositiveOf(ranked), 1, Len(selected))
        /\ cum = SumRed(selected)
        /\ \A k \in 1..(Len(selected) - 1) :
               ~FGE(SumRed(SubSeq(selected, 1, k)), target)
        /\ (pc = "done" /\ outcome = "reported" /\ selected # <<>>) => achieved.ok
        /\ achieved.ok => NearestHundredths(achieved, cum, total)

====
